---- MODULE Spec2Model ----
(***************************************************************************)
(* Client Health Scoring Engine of the agency backend                      *)
(* (src/backend/services/client_health.py): the five factor functions, the *)
(* result assembler, the single evaluator compute_health and the batch     *)
(* evaluator compute_health_batch, run against a small relational store.   *)
(*                                                                         *)
(* Conventions                                                             *)
(*   - Python's None is the empty tuple None == <<>>; a present value v is *)
(*     Some(v) == <<v>>.                                                   *)
(*   - Time is counted in whole days; a month is MonthLen days long and    *)
(*     begins at MonthStart.                                               *)
(*   - Money is counted in whole currency units.  Within the bounds used   *)
(*     here IEEE double arithmetic agrees with the exact arithmetic below: *)
(*     int(c / t * 20) is the truncated quotient of 20*c by t, and         *)
(*     cost / budget <= 0.7 is 10*cost <= 7*budget (likewise 0.9, 1.0 and  *)
(*     1.2).                                                               *)
(***************************************************************************)
EXTENDS Integers, Sequences, FiniteSets, TLC

None == <<>>

Some(v) == <<v>>

Val(o) == o[1]

Max2(a, b) == IF a >= b THEN a ELSE b

Min2(a, b) == IF a <= b THEN a ELSE b

\* Python's int() of the quotient n / d: rounds toward zero.
IntDiv(n, d) ==
    LET an == IF n >= 0 THEN n ELSE -n
        ad == IF d >= 0 THEN d ELSE -d
        q  == an \div ad
    IN  IF (n >= 0) = (d > 0) THEN q ELSE -q

(***************************************************************************)
(* Scoring helpers                                                         *)
(***************************************************************************)

\* The band edge is exclusive instead of inclusive.
_comm_score_from_days_strict(days_since) ==
    IF days_since = None THEN 0
    ELSE IF Val(days_since) < 3 THEN 25
    ELSE IF Val(days_since) < 7 THEN 20
    ELSE IF Val(days_since) < 14 THEN 15
    ELSE IF Val(days_since) < 30 THEN 8
    ELSE 0

_comm_score_from_days(days_since) ==
    IF days_since = None THEN 0
    ELSE IF Val(days_since) <= 3 THEN 25
    ELSE IF Val(days_since) <= 7 THEN 20
    ELSE IF Val(days_since) <= 14 THEN 15
    ELSE IF Val(days_since) <= 30 THEN 8
    ELSE 0

\* No neutral value for a client without tasks.
_task_score_from_counts_no_neutral(total, completed, overdue) ==
    IF total = 0 THEN 0
    ELSE LET score == IntDiv(completed * 20, total)
         IN  IF overdue = 0 THEN score + 5
             ELSE Max2(0, score - Min2(overdue * 3, 10))

\* The overdue penalty is not capped at 10.
_task_score_from_counts_uncapped(total, completed, overdue) ==
    IF total = 0 THEN 15
    ELSE LET score == IntDiv(completed * 20, total)
         IN  IF overdue = 0 THEN score + 5
             ELSE Max2(0, score - overdue * 3)

_task_score_from_counts(total, completed, overdue) ==
    IF total = 0 THEN 15
    ELSE LET score == IntDiv(completed * 20, total)
         IN  IF overdue = 0 THEN score + 5
             ELSE Max2(0, score - Min2(overdue * 3, 10))

\* The product is not capped at 15.
_digest_score_from_count_uncapped(digest_count) ==
    Min2(digest_count, 4) * 4

_digest_score_from_count(digest_count) ==
    Min2(Min2(digest_count, 4) * 4, 15)

\* A budget of 0 is not taken as "no budget".
_profit_score_from_cost_zero_budget(monthly_budget, estimated_cost) ==
    IF monthly_budget = None \/ Val(monthly_budget) < 0
    THEN 10
    ELSE LET b == Val(monthly_budget)
             c == estimated_cost
         IN  IF 10 * c <= 7 * b THEN 20
             ELSE IF 10 * c <= 9 * b THEN 15
             ELSE IF c <= b THEN 10
             ELSE IF 10 * c <= 12 * b THEN 5
             ELSE 0

\* The ratio bands are exclusive at their upper bound.
_profit_score_from_cost_strict(monthly_budget, estimated_cost) ==
    IF monthly_budget = None \/ Val(monthly_budget) = 0 \/ Val(monthly_budget) <= 0
    THEN 10
    ELSE LET b == Val(monthly_budget)
             c == estimated_cost
         IN  IF 10 * c < 7 * b THEN 20
             ELSE IF 10 * c < 9 * b THEN 15
             ELSE IF c < b THEN 10
             ELSE IF 10 * c < 12 * b THEN 5
             ELSE 0

_profit_score_from_cost(monthly_budget, estimated_cost) ==
    IF monthly_budget = None \/ Val(monthly_budget) = 0 \/ Val(monthly_budget) <= 0
    THEN 10
    ELSE LET b == Val(monthly_budget)
             c == estimated_cost
         IN  IF 10 * c <= 7 * b THEN 20
             ELSE IF 10 * c <= 9 * b THEN 15
             ELSE IF c <= b THEN 10
             ELSE IF 10 * c <= 12 * b THEN 5
             ELSE 0

\* Three overdue follow-ups still earn the middle value.
_followup_score_from_overdue_lenient(overdue_followups) ==
    IF overdue_followups = 0 THEN 15
    ELSE IF overdue_followups <= 3 THEN 8
    ELSE 0

\* The first two steps are exchanged.
_followup_score_from_overdue_rising(overdue_followups) ==
    IF overdue_followups = 0 THEN 8
    ELSE IF overdue_followups <= 2 THEN 15
    ELSE 0

_followup_score_from_overdue(overdue_followups) ==
    IF overdue_followups = 0 THEN 15
    ELSE IF overdue_followups <= 2 THEN 8
    ELSE 0

\* The sum is not clamped to 0..100.
_build_result_unclamped(client_id, client_name, comm, tasks, digests, profit, followups) ==
    LET total == comm + tasks + digests + profit + followups
    IN  [ client_id   |-> client_id,
          client_name |-> client_name,
          score       |-> total,
          factors     |-> [ communication |-> comm,
                            tasks         |-> tasks,
                            digests       |-> digests,
                            profitability |-> profit,
                            followups     |-> followups ],
          risk_level  |-> IF total >= 70 THEN "healthy"
                          ELSE IF total >= 40 THEN "warning"
                          ELSE "at_risk" ]

_build_result(client_id, client_name, comm, tasks, digests, profit, followups) ==
    LET total == Max2(0, Min2(100, comm + tasks + digests + profit + followups))
    IN  [ client_id   |-> client_id,
          client_name |-> client_name,
          score       |-> total,
          factors     |-> [ communication |-> comm,
                            tasks         |-> tasks,
                            digests       |-> digests,
                            profitability |-> profit,
                            followups     |-> followups ],
          risk_level  |-> IF total >= 70 THEN "healthy"
                          ELSE IF total >= 40 THEN "warning"
                          ELSE "at_risk" ]

(***************************************************************************)
(* The backing store.  Each table maps a row id to its row, or to None     *)
(* when no row holds that id.                                              *)
(***************************************************************************)

VARIABLES
    clock,              \* the current day (datetime.now)
    clients,            \* clients table: id -> [name, monthly_budget, status]
    users,              \* users table: id -> [hourly_rate]
    tasks,              \* tasks table: id -> [client_id, status, due_date]
    communication_logs, \* id -> [client_id, occurred_at, requires_followup, followup_date]
    weekly_digests,     \* id -> [client_id, period_start]
    time_entries,       \* id -> [task_id, user_id, minutes, date]
    single,             \* the invocation of compute_health in flight
    batch,              \* the invocation of compute_health_batch in flight
    call,               \* a direct call of one scoring helper: what it was given and gave
    seconds,            \* the current second (time.monotonic, time.time)
    limiter,            \* worker -> its _SlidingWindowLimiter and the check in flight
    redis,              \* the shared Redis store: key -> scores of its sorted set
    admitted,           \* the admissions of each backend that are younger than the window
    access              \* a call of require_module and of the checker it returned

db == <<clients, users, tasks, communication_logs, weekly_digests, time_entries>>

\* The rate limiters and the module guard.
guards == <<seconds, limiter, redis, admitted, access>>

\* The state outside the two evaluators.
outside == <<call, guards>>

vars == <<clock, clients, users, tasks, communication_logs, weekly_digests,
          time_entries, single, batch, call, seconds, limiter, redis, admitted,
          access>>

\* Bounds of the model: rows the four activity tables hold together, and
\* days the clock advances.
MaxRows == 2

\* The first day of the model.
Day0 == 40

\* Days of a calendar month (now.replace(day=1, ...) is the month's first day).
MonthLen == 30

\* timedelta(weeks=4), in days.
FourWeeks == 28

DEFAULT_HOURLY_RATE == 40

ClientIds == {1, 2}

UserIds == {1, 2}

RowIds == 1..MaxRows

\* Values the rows' columns are drawn from.
StatusValues == {"pending", "completed"}

DueValues == {None, Some(Day0 - 35)}

\* <<occurred_at, requires_followup, followup_date>>
LogValues == {<<Day0 - 2, FALSE, None>>, <<Day0 - 35, TRUE, Some(Day0 - 35)>>}

PeriodValues == {Day0 - 35, Day0 - 2}

EntryDates == {Day0 - 2}

MinutesValues == {Some(600)}

Present(table) == {i \in DOMAIN table : table[i] # None}

Row(table, i) == Val(table[i])

RowCount ==
    Cardinality(Present(tasks)) + Cardinality(Present(communication_logs))
    + Cardinality(Present(weekly_digests)) + Cardinality(Present(time_entries))

FreeId(table) == CHOOSE i \in DOMAIN table : table[i] = None

RECURSIVE SumOver(_, _)
SumOver(S, f) ==
    IF S = {} THEN 0
    ELSE LET x == CHOOSE y \in S : TRUE
         IN  f[x] + SumOver(S \ {x}, f)

MaxOf(S) == CHOOSE x \in S : \A y \in S : y <= x

(***************************************************************************)
(* The queries of compute_health, each on one client.                      *)
(***************************************************************************)

LogsOf(cid) ==
    {i \in Present(communication_logs) : Row(communication_logs, i).client_id = cid}

TasksOf(cid) == {i \in Present(tasks) : Row(tasks, i).client_id = cid}

\* select max(occurred_at) where client_id = cid: NULL when no row matches.
SelectLastComm(cid) ==
    IF LogsOf(cid) = {} THEN None
    ELSE Some(MaxOf({Row(communication_logs, i).occurred_at : i \in LogsOf(cid)}))

\* select status, count(*) where client_id = cid group by status, as a dict.
SelectTaskCounts(cid) ==
    LET present == {Row(tasks, i).status : i \in TasksOf(cid)}
    IN  [st \in present |->
            Cardinality({i \in TasksOf(cid) : Row(tasks, i).status = st})]

OverdueTasksOf(cid, now) ==
    {i \in TasksOf(cid) :
        /\ Row(tasks, i).status # "completed"
        /\ Row(tasks, i).due_date # None
        /\ Val(Row(tasks, i).due_date) < now}

\* select count(*) of the client's tasks not completed and due before now.
SelectOverdueCount(cid, now) == Cardinality(OverdueTasksOf(cid, now))

RecentDigestsOf(cid, now) ==
    {i \in Present(weekly_digests) :
        /\ Row(weekly_digests, i).client_id = cid
        /\ Row(weekly_digests, i).period_start >= now - FourWeeks}

SelectDigestCount(cid, now) == Cardinality(RecentDigestsOf(cid, now))

MonthStart(now) == now - (now % MonthLen)

\* The time entries the join with tasks and users keeps for the client.
JoinedEntriesOf(cid, now) ==
    {i \in Present(time_entries) :
        LET e == Row(time_entries, i)
        IN  /\ e.task_id # None
            /\ Val(e.task_id) \in TasksOf(cid)
            /\ e.user_id \in DOMAIN users
            /\ e.date >= MonthStart(now)}

\* minutes * coalesce(hourly_rate, DEFAULT_HOURLY_RATE) / 60 of one entry;
\* sum() skips the entries whose minutes are NULL.
EntryCost(i) ==
    LET e    == Row(time_entries, i)
        rate == IF users[e.user_id].hourly_rate = None
                THEN DEFAULT_HOURLY_RATE
                ELSE Val(users[e.user_id].hourly_rate)
    IN  IF e.minutes = None THEN 0 ELSE (Val(e.minutes) * rate) \div 60

SumCost(S) == SumOver(S, [i \in S |-> EntryCost(i)])

\* select coalesce(sum(...), 0) ... where Task.client_id = cid and date >= month_start.
SelectCost(cid, now) == SumCost(JoinedEntriesOf(cid, now))

OverdueFollowupsOf(cid, now) ==
    {i \in LogsOf(cid) :
        /\ Row(communication_logs, i).requires_followup
        /\ Row(communication_logs, i).followup_date # None
        /\ Val(Row(communication_logs, i).followup_date) < now}

SelectOverdueFollowups(cid, now) == Cardinality(OverdueFollowupsOf(cid, now))

(***************************************************************************)
(* The grouped queries of compute_health_batch: one row per client of      *)
(* client_ids that has a matching row, as a dict keyed by client id.       *)
(***************************************************************************)

\* where client_id in client_ids
LogsIn(client_ids) ==
    {i \in Present(communication_logs) :
        Row(communication_logs, i).client_id \in client_ids}

TasksIn(client_ids) ==
    {i \in Present(tasks) : Row(tasks, i).client_id \in client_ids}

\* select client_id, max(occurred_at) ... group by client_id, as a dict.
SelectLastCommBatch(client_ids) ==
    LET rows == LogsIn(client_ids)
    IN  [cid \in {Row(communication_logs, i).client_id : i \in rows} |->
            MaxOf({Row(communication_logs, i).occurred_at :
                     i \in {j \in rows : Row(communication_logs, j).client_id = cid}})]

\* select client_id, status, count(*) ... group by client_id, status:
\* the set of result rows <<client_id, status, count>>.
SelectTaskCountsBatch(client_ids) ==
    LET rows == TasksIn(client_ids)
    IN  {<<Row(tasks, i).client_id, Row(tasks, i).status,
           Cardinality({j \in rows :
               /\ Row(tasks, j).client_id = Row(tasks, i).client_id
               /\ Row(tasks, j).status = Row(tasks, i).status})>> : i \in rows}

\* task_status_map.setdefault(cid, {})[task_status] = cnt, over the result rows.
BuildTaskStatusMap(result) ==
    [cid \in {r[1] : r \in result} |->
        [st \in {r[2] : r \in {q \in result : q[1] = cid}} |->
            (CHOOSE r \in result : r[1] = cid /\ r[2] = st)[3]]]

\* The grouped overdue count without its status filter.
SelectOverdueBatch_any_status(client_ids, now) ==
    LET rows == {i \in TasksIn(client_ids) :
                    /\ Row(tasks, i).due_date # None
                    /\ Val(Row(tasks, i).due_date) < now}
    IN  [cid \in {Row(tasks, i).client_id : i \in rows} |->
            Cardinality({i \in rows : Row(tasks, i).client_id = cid})]

SelectOverdueBatch(client_ids, now) ==
    LET rows == {i \in TasksIn(client_ids) :
                    /\ Row(tasks, i).status # "completed"
                    /\ Row(tasks, i).due_date # None
                    /\ Val(Row(tasks, i).due_date) < now}
    IN  [cid \in {Row(tasks, i).client_id : i \in rows} |->
            Cardinality({i \in rows : Row(tasks, i).client_id = cid})]

SelectDigestBatch(client_ids, now) ==
    LET rows == {i \in Present(weekly_digests) :
                    /\ Row(weekly_digests, i).client_id \in client_ids
                    /\ Row(weekly_digests, i).period_start >= now - FourWeeks}
    IN  [cid \in {Row(weekly_digests, i).client_id : i \in rows} |->
            Cardinality({i \in rows : Row(weekly_digests, i).client_id = cid})]

\* The client a time entry is joined to through its task.
EntryClient(i) == Row(tasks, Val(Row(time_entries, i).task_id)).client_id

SelectCostBatch(client_ids, now) ==
    LET rows == {i \in Present(time_entries) :
                    LET e == Row(time_entries, i)
                    IN  /\ e.task_id # None
                        /\ Val(e.task_id) \in TasksIn(client_ids)
                        /\ e.user_id \in DOMAIN users
                        /\ e.date >= MonthStart(now)}
    IN  [cid \in {EntryClient(i) : i \in rows} |->
            SumCost({i \in rows : EntryClient(i) = cid})]

SelectFollowupsBatch(client_ids, now) ==
    LET rows == {i \in LogsIn(client_ids) :
                    /\ Row(communication_logs, i).requires_followup
                    /\ Row(communication_logs, i).followup_date # None
                    /\ Val(Row(communication_logs, i).followup_date) < now}
    IN  [cid \in {Row(communication_logs, i).client_id : i \in rows} |->
            Cardinality({i \in rows : Row(communication_logs, i).client_id = cid})]

\* dict.get(key, default)
Get(map, key, default) == IF key \in DOMAIN map THEN map[key] ELSE default

\* sum(dict.values())
SumValues(map) == SumOver(DOMAIN map, map)

(***************************************************************************)
(* compute_health: one action per stretch of code between two awaits.      *)
(* pc names the fetch the invocation is about to issue.  db_changed is     *)
(* history: whether the store was written since the call.                  *)
(***************************************************************************)

SingleIdle ==
    [ pc |-> "idle", client |-> None, now |-> 0, comm_score |-> None,
      task_args |-> None, task_score |-> None, digest_score |-> None,
      profit_score |-> None, nfetch |-> 0, result |-> None, error |-> None,
      db_changed |-> FALSE ]

FetchPcs == {"comm", "tasks", "overdue", "digests", "cost", "followups"}

\* The Client object handed to the engine: a snapshot of the client's row.
ClientObject(cid) ==
    [id |-> cid, name |-> clients[cid].name,
     monthly_budget |-> clients[cid].monthly_budget]

\* The exception is swallowed and an empty result returned in its place.
Raise_substitute(idle, inv, kind) ==
    [idle EXCEPT !.pc = "done", !.error = Some(kind), !.nfetch = inv.nfetch + 1,
                 !.result = Some(<<>>), !.db_changed = inv.db_changed]

\* An exception raised by db.execute is not caught: it leaves the function.
\* error is the exception the caller receives: the fetch that raised it.
Raise(idle, inv, kind) ==
    [idle EXCEPT !.pc = "failed", !.error = Some(kind), !.nfetch = inv.nfetch + 1,
                 !.db_changed = inv.db_changed]

SingleCall(cid) ==
    /\ single.pc = "idle"
    /\ single' = [SingleIdle EXCEPT !.pc = "comm", !.client = Some(ClientObject(cid)),
                                    !.now = clock]
    /\ UNCHANGED <<clock, db, batch, outside>>

SingleFetchComm ==
    /\ single.pc = "comm"
    /\ LET last_comm_date == SelectLastComm(Val(single.client).id)
           days_since == IF last_comm_date # None
                         THEN Some(single.now - Val(last_comm_date))
                         ELSE None
       IN  single' = [single EXCEPT !.pc = "tasks", !.nfetch = @ + 1,
                          !.comm_score = Some(_comm_score_from_days(days_since))]
    /\ UNCHANGED <<clock, db, batch, outside>>

SingleFetchTasks ==
    /\ single.pc = "tasks"
    /\ LET task_map == SelectTaskCounts(Val(single.client).id)
           total_tasks == SumValues(task_map)
           completed == Get(task_map, "completed", 0)
       IN  IF total_tasks > 0
           THEN single' = [single EXCEPT !.pc = "overdue", !.nfetch = @ + 1,
                               !.task_args = Some(<<total_tasks, completed, 0>>)]
           ELSE single' = [single EXCEPT !.pc = "digests", !.nfetch = @ + 1,
                               !.task_args = Some(<<total_tasks, completed, 0>>),
                               !.task_score =
                                   Some(_task_score_from_counts(total_tasks, completed, 0))]
    /\ UNCHANGED <<clock, db, batch, outside>>

SingleFetchOverdue ==
    /\ single.pc = "overdue"
    /\ LET total_tasks == Val(single.task_args)[1]
           completed == Val(single.task_args)[2]
           overdue == SelectOverdueCount(Val(single.client).id, single.now)
       IN  single' = [single EXCEPT !.pc = "digests", !.nfetch = @ + 1,
                          !.task_args = Some(<<total_tasks, completed, overdue>>),
                          !.task_score =
                              Some(_task_score_from_counts(total_tasks, completed, overdue))]
    /\ UNCHANGED <<clock, db, batch, outside>>

\* if client.monthly_budget and client.monthly_budget > 0
HasBudget(client) == client.monthly_budget # None /\ Val(client.monthly_budget) > 0

SingleFetchDigests ==
    /\ single.pc = "digests"
    /\ LET digest_count == SelectDigestCount(Val(single.client).id, single.now)
           digest_score == _digest_score_from_count(digest_count)
       IN  IF HasBudget(Val(single.client))
           THEN single' = [single EXCEPT !.pc = "cost", !.nfetch = @ + 1,
                               !.digest_score = Some(digest_score)]
           ELSE single' = [single EXCEPT !.pc = "followups", !.nfetch = @ + 1,
                               !.digest_score = Some(digest_score),
                               !.profit_score = Some(_profit_score_from_cost(
                                   Val(single.client).monthly_budget, 0))]
    /\ UNCHANGED <<clock, db, batch, outside>>

SingleFetchCost ==
    /\ single.pc = "cost"
    /\ LET estimated_cost == SelectCost(Val(single.client).id, single.now)
       IN  single' = [single EXCEPT !.pc = "followups", !.nfetch = @ + 1,
                          !.profit_score = Some(_profit_score_from_cost(
                              Val(single.client).monthly_budget, estimated_cost))]
    /\ UNCHANGED <<clock, db, batch, outside>>

SingleFetchFollowups ==
    /\ single.pc = "followups"
    /\ LET client == Val(single.client)
           overdue_followups == SelectOverdueFollowups(client.id, single.now)
           followup_score == _followup_score_from_overdue(overdue_followups)
       IN  single' = [SingleIdle EXCEPT !.pc = "done", !.client = single.client,
                          !.now = single.now, !.nfetch = single.nfetch + 1,
                          !.db_changed = single.db_changed,
                          !.result = Some(_build_result(client.id, client.name,
                              Val(single.comm_score), Val(single.task_score),
                              Val(single.digest_score), Val(single.profit_score),
                              followup_score))]
    /\ UNCHANGED <<clock, db, batch, outside>>

SingleFetchFails ==
    /\ single.pc \in FetchPcs
    /\ single' = Raise(SingleIdle, single, single.pc)
    /\ UNCHANGED <<clock, db, batch, outside>>

\* The last result is kept for the next invocation.
SingleReturn_caching ==
    /\ single.pc \in {"done", "failed"}
    /\ single' = [SingleIdle EXCEPT !.result = single.result]
    /\ UNCHANGED <<clock, db, batch, outside>>

\* The caller has taken the result or the exception.
SingleReturn ==
    /\ single.pc \in {"done", "failed"}
    /\ single' = SingleIdle
    /\ UNCHANGED <<clock, db, batch, outside>>

(***************************************************************************)
(* compute_health_batch                                                    *)
(***************************************************************************)

BatchIdle ==
    [ pc |-> "idle", clients |-> <<>>, now |-> 0, client_ids |-> <<>>,
      client_name_map |-> <<>>, client_budget_map |-> <<>>,
      last_comm_map |-> <<>>, task_status_map |-> <<>>, overdue_map |-> <<>>,
      digest_map |-> <<>>, cost_map |-> <<>>, nfetch |-> 0,
      result |-> None, error |-> None, db_changed |-> FALSE ]

\* The client lists a caller passes: Client objects loaded from the clients
\* table, in any order, a client possibly more than once.
ClientLists ==
    UNION {[1..n -> ClientIds] : n \in 0..Cardinality(ClientIds)}

Ids(seq) == {seq[i] : i \in DOMAIN seq}

\* {c.id: c.<field> for c in clients}: a later client of the list wins.
LastWith(cs, cid) ==
    cs[MaxOf({i \in DOMAIN cs : cs[i].id = cid})]

BatchCall(ids) ==
    /\ batch.pc = "idle"
    /\ LET cs == [i \in DOMAIN ids |-> ClientObject(ids[i])]
       IN  IF cs = <<>>
           THEN batch' = [BatchIdle EXCEPT !.pc = "done", !.now = clock,
                                           !.result = Some(<<>>)]
           ELSE batch' = [BatchIdle EXCEPT
                    !.pc = "comm", !.clients = cs, !.now = clock,
                    !.client_ids = [i \in DOMAIN cs |-> cs[i].id],
                    !.client_name_map =
                        [cid \in {cs[i].id : i \in DOMAIN cs} |-> LastWith(cs, cid).name],
                    !.client_budget_map =
                        [cid \in {cs[i].id : i \in DOMAIN cs} |->
                            LastWith(cs, cid).monthly_budget]]
    /\ UNCHANGED <<clock, db, single, outside>>

BatchFetchComm ==
    /\ batch.pc = "comm"
    /\ batch' = [batch EXCEPT !.pc = "tasks", !.nfetch = @ + 1,
                     !.last_comm_map = SelectLastCommBatch(Ids(batch.client_ids))]
    /\ UNCHANGED <<clock, db, single, outside>>

BatchFetchTasks ==
    /\ batch.pc = "tasks"
    /\ batch' = [batch EXCEPT !.pc = "overdue", !.nfetch = @ + 1,
                     !.task_status_map =
                         BuildTaskStatusMap(SelectTaskCountsBatch(Ids(batch.client_ids)))]
    /\ UNCHANGED <<clock, db, single, outside>>

\* One overdue query per client instead of one grouped query.
BatchFetchOverdue_per_client ==
    /\ batch.pc = "overdue"
    /\ batch' = [batch EXCEPT !.pc = "digests", !.nfetch = @ + Len(batch.client_ids),
                     !.overdue_map = SelectOverdueBatch(Ids(batch.client_ids), batch.now)]
    /\ UNCHANGED <<clock, db, single, outside>>

BatchFetchOverdue ==
    /\ batch.pc = "overdue"
    /\ batch' = [batch EXCEPT !.pc = "digests", !.nfetch = @ + 1,
                     !.overdue_map = SelectOverdueBatch(Ids(batch.client_ids), batch.now)]
    /\ UNCHANGED <<clock, db, single, outside>>

BatchFetchDigests ==
    /\ batch.pc = "digests"
    /\ batch' = [batch EXCEPT !.pc = "cost", !.nfetch = @ + 1,
                     !.digest_map = SelectDigestBatch(Ids(batch.client_ids), batch.now)]
    /\ UNCHANGED <<clock, db, single, outside>>

BatchFetchCost ==
    /\ batch.pc = "cost"
    /\ batch' = [batch EXCEPT !.pc = "followups", !.nfetch = @ + 1,
                     !.cost_map = SelectCostBatch(Ids(batch.client_ids), batch.now)]
    /\ UNCHANGED <<clock, db, single, outside>>

\* The arguments the assembly loop hands to _task_score_from_counts for cid.
BatchTaskArgs(task_status_map, overdue_map, cid) ==
    LET status_counts == Get(task_status_map, cid, <<>>)
        total_tasks == SumValues(status_counts)
        completed == Get(status_counts, "completed", 0)
        overdue == Get(overdue_map, cid, 0)
    IN  <<total_tasks, completed, overdue>>

\* One pass of the assembly loop: the result of client cid.
AssembleOne(b, followup_map, cid) ==
    LET \* last_comm_map.get(cid) is None exactly when cid has no entry
        days_since == IF cid \in DOMAIN b.last_comm_map
                      THEN Some(b.now - b.last_comm_map[cid])
                      ELSE None
        comm == _comm_score_from_days(days_since)
        args == BatchTaskArgs(b.task_status_map, b.overdue_map, cid)
        tasks_ == _task_score_from_counts(args[1], args[2], args[3])
        digests == _digest_score_from_count(Get(b.digest_map, cid, 0))
        estimated_cost == Get(b.cost_map, cid, 0)
        profit == _profit_score_from_cost(b.client_budget_map[cid], estimated_cost)
        followups == _followup_score_from_overdue(Get(followup_map, cid, 0))
    IN  _build_result(cid, b.client_name_map[cid],
                      comm, tasks_, digests, profit, followups)

\* The loop runs over the keys of client_name_map instead of the list.
AssembleScores_over_map_keys(b, followup_map) ==
    LET ids == DOMAIN b.client_name_map
        nth(k) == CHOOSE x \in ids : Cardinality({y \in ids : y < x}) = k - 1
    IN  [k \in 1..Cardinality(ids) |-> AssembleOne(b, followup_map, nth(k))]

\* for cid in client_ids: scores.append(...)
AssembleScores(b, followup_map) ==
    [i \in DOMAIN b.client_ids |-> AssembleOne(b, followup_map, b.client_ids[i])]

BatchFetchFollowups ==
    /\ batch.pc = "followups"
    /\ LET followup_map == SelectFollowupsBatch(Ids(batch.client_ids), batch.now)
       IN  batch' = [BatchIdle EXCEPT !.pc = "done", !.clients = batch.clients,
                         !.now = batch.now, !.nfetch = batch.nfetch + 1,
                         !.db_changed = batch.db_changed,
                         !.result = Some(AssembleScores(batch, followup_map))]
    /\ UNCHANGED <<clock, db, single, outside>>

\* The failure of the batch also ends the compute_health in flight.
BatchFetchFails_aborting_both ==
    /\ batch.pc \in FetchPcs
    /\ batch' = Raise(BatchIdle, batch, batch.pc)
    /\ single' = IF single.pc \in FetchPcs
                 THEN Raise(SingleIdle, single, single.pc)
                 ELSE single
    /\ UNCHANGED <<clock, db, outside>>

BatchFetchFails ==
    /\ batch.pc \in FetchPcs
    /\ batch' = Raise(BatchIdle, batch, batch.pc)
    /\ UNCHANGED <<clock, db, single, outside>>

(***************************************************************************)
(* list_health_scores, the only caller of compute_health_batch: it selects *)
(* the active clients ordered by name, evaluates them, sorts the scores in *)
(* place and returns them.                                                 *)
(***************************************************************************)

\* Client names in the order the database collates them.
NameOrder == <<"Acme", "Globex">>

NameBefore(a, b) ==
    \E i, j \in DOMAIN NameOrder : NameOrder[i] = a /\ NameOrder[j] = b /\ i < j

\* select(Client).where(Client.status == ClientStatus.active).order_by(Client.name)
ActiveClientsByName ==
    LET act == {c \in ClientIds : clients[c].status = "active"}
        nth(k) == CHOOSE c \in act :
                      Cardinality({d \in act :
                          NameBefore(clients[d].name, clients[c].name)}) = k - 1
    IN  [k \in 1..Cardinality(act) |-> nth(k)]

\* One step of the sort: x goes behind every entry whose score is not greater.
InsertByScore(sorted, x) ==
    LET k == Cardinality({i \in DOMAIN sorted : sorted[i].score <= x.score})
    IN  SubSeq(sorted, 1, k) \o <<x>> \o SubSeq(sorted, k + 1, Len(sorted))

\* The scores are returned as compute_health_batch gave them.
SortByScore_unsorted(scores) == scores

\* scores.sort(key=lambda s: s["score"]): ascending and stable.
RECURSIVE SortByScore(_)
SortByScore(scores) ==
    IF scores = <<>> THEN <<>>
    ELSE InsertByScore(SortByScore(SubSeq(scores, 1, Len(scores) - 1)),
                       scores[Len(scores)])

list_health_scores == BatchCall(ActiveClientsByName)

\* compute_health_batch has returned to the route, which sorts its list.
SortScores ==
    /\ batch.pc = "done"
    /\ batch' = [batch EXCEPT !.pc = "sorted", !.result = Some(SortByScore(Val(@)))]
    /\ UNCHANGED <<clock, db, single, outside>>

\* The route returns the sorted scores, or the exception, to its caller.
BatchReturn ==
    /\ batch.pc \in {"sorted", "failed"}
    /\ batch' = BatchIdle
    /\ UNCHANGED <<clock, db, single, outside>>

(***************************************************************************)
(* Writers of the store: the task routes, which commit rows while          *)
(* evaluations are in flight.  Each marks the evaluations in flight as     *)
(* having seen a write, and leaves everything else of them alone.          *)
(***************************************************************************)

Seen(inv) == IF inv.pc = "idle" THEN inv ELSE [inv EXCEPT !.db_changed = TRUE]

Written ==
    /\ single' = Seen(single)
    /\ batch' = Seen(batch)
    /\ UNCHANGED <<clock, outside>>

create_task(cid, st, due) ==
    /\ Present(tasks) # DOMAIN tasks
    /\ tasks' = [tasks EXCEPT ![FreeId(tasks)] =
                    Some([client_id |-> cid, status |-> st, due_date |-> due])]
    /\ Written
    /\ UNCHANGED <<clients, users, communication_logs, weekly_digests, time_entries>>

update_task(id, st) ==
    /\ id \in Present(tasks)
    /\ Row(tasks, id).status # st
    /\ tasks' = [tasks EXCEPT ![id] = Some([Row(tasks, id) EXCEPT !.status = st])]
    /\ Written
    /\ UNCHANGED <<clients, users, communication_logs, weekly_digests, time_entries>>

\* The delete is refused (IntegrityError, 409) while a time entry refers to the task.
delete_task(id) ==
    /\ id \in Present(tasks)
    /\ \A e \in Present(time_entries) : Row(time_entries, e).task_id # Some(id)
    /\ tasks' = [tasks EXCEPT ![id] = None]
    /\ Written
    /\ UNCHANGED <<clients, users, communication_logs, weekly_digests, time_entries>>

(***************************************************************************)
(* Direct calls of the scoring helpers, on arguments drawn from bounded    *)
(* sets.  A call either returns (ret holds the value) or raises.           *)
(***************************************************************************)

CallIdle == [fn |-> "none", args |-> <<>>, ret |-> None, raised |-> FALSE]

Returned(fn, args, value) ==
    [fn |-> fn, args |-> args, ret |-> Some(value), raised |-> FALSE]

\* Bounds of the arguments.
MaxDays == 32

MaxCount == 6

MaxCost == 13

DaysInputs == {None} \cup {Some(d) : d \in -1..MaxDays}

CountInputs == -1..MaxCount

BudgetInputs == {None, Some(-10), Some(0), Some(10), Some(1000)}

CostInputs == (-1..MaxCost) \cup {100 * c : c \in 0..MaxCost}
              \cup {100 * c + 1 : c \in 0..MaxCost}

\* Factor values handed to _build_result: those the helpers give on well-formed
\* aggregates, and some only a malformed aggregate gives.
CommFactors == {0, 8, 15, 20, 25}

TaskFactors == {-15, 0, 12, 15, 25, 45, 105}

DigestFactors == {0, 4, 8, 12, 15}

ProfitFactors == {0, 5, 10, 15, 20}

FollowupFactors == {0, 8, 15}

\* The five factor calls and the assembly, as both evaluators make them once the
\* aggregates of a client are at hand.
ScoreSignals(days_since, task_args, digest_count, monthly_budget, estimated_cost, overdue_followups) ==
    _build_result(1, "Acme",
        _comm_score_from_days(days_since),
        _task_score_from_counts(task_args[1], task_args[2], task_args[3]),
        _digest_score_from_count(digest_count),
        _profit_score_from_cost(monthly_budget, estimated_cost),
        _followup_score_from_overdue(overdue_followups))

\* Whole sets of signals: <<days, <<total, completed, overdue>>, reports,
\* budget, cost, overdue follow-ups>>.
SignalInputs ==
    {<<d, t, r, bc[1], bc[2], f>> :
        d \in {None, Some(2), Some(45)},
        t \in {<<0, 0, 0>>, <<0, 0, 2>>, <<10, 10, 0>>, <<4, 1, 2>>,
               <<1, 2, 0>>, <<1, 6, 0>>, <<2, -1, 1>>},
        r \in {0, 6},
        bc \in {<<None, 0>>, <<Some(0), 300>>, <<Some(1000), 700>>,
                <<Some(1000), 1300>>},
        f \in {0, 3}}

CallComm ==
    /\ call.fn = "none"
    /\ \E d \in DaysInputs :
           call' = Returned("_comm_score_from_days", <<d>>, _comm_score_from_days(d))
    /\ UNCHANGED <<clock, db, single, batch, guards>>

CallTask ==
    /\ call.fn = "none"
    /\ \E total \in CountInputs, completed \in CountInputs, overdue \in CountInputs :
           call' = Returned("_task_score_from_counts", <<total, completed, overdue>>,
                            _task_score_from_counts(total, completed, overdue))
    /\ UNCHANGED <<clock, db, single, batch, guards>>

CallDigest ==
    /\ call.fn = "none"
    /\ \E n \in CountInputs :
           call' = Returned("_digest_score_from_count", <<n>>,
                            _digest_score_from_count(n))
    /\ UNCHANGED <<clock, db, single, batch, guards>>

CallProfit ==
    /\ call.fn = "none"
    /\ \E b \in BudgetInputs, c \in CostInputs :
           call' = Returned("_profit_score_from_cost", <<b, c>>,
                            _profit_score_from_cost(b, c))
    /\ UNCHANGED <<clock, db, single, batch, guards>>

CallFollowup ==
    /\ call.fn = "none"
    /\ \E n \in CountInputs :
           call' = Returned("_followup_score_from_overdue", <<n>>,
                            _followup_score_from_overdue(n))
    /\ UNCHANGED <<clock, db, single, batch, guards>>

CallBuild ==
    /\ call.fn = "none"
    /\ \E comm \in CommFactors, tasks_ \in TaskFactors, digests \in DigestFactors,
          profit \in ProfitFactors, followups \in FollowupFactors :
           call' = Returned("_build_result",
                            <<comm, tasks_, digests, profit, followups>>,
                            _build_result(1, "Acme", comm, tasks_, digests, profit,
                                          followups))
    /\ UNCHANGED <<clock, db, single, batch, guards>>

CallScore ==
    /\ call.fn = "none"
    /\ \E sig \in SignalInputs :
           call' = Returned("score", sig,
                            ScoreSignals(sig[1], sig[2], sig[3], sig[4], sig[5], sig[6]))
    /\ UNCHANGED <<clock, db, single, batch, guards>>

CallReturn ==
    /\ call.fn # "none"
    /\ call' = CallIdle
    /\ UNCHANGED <<clock, db, single, batch, guards>>

(***************************************************************************)
(* The module guard (api/deps.py).  A route declares                       *)
(* Depends(require_module(...)); the call of require_module makes the      *)
(* checker, and the checker is then run on the current user.               *)
(***************************************************************************)

\* Bound of the model: permissions one user holds.
MaxPerms == 2

Modules == {"clients", "leads"}

RoleValues == {"admin", "member"}

UserPermissions == [module : Modules, can_read : BOOLEAN, can_write : BOOLEAN]

PermLists == UNION {[1..n -> UserPermissions] : n \in 0..MaxPerms}

CurrentUsers == [role : RoleValues, permissions : PermLists]

\* The keyword argument write of a call: absent, or given with a value.
WriteArgs == {None, Some(TRUE), Some(FALSE)}

\* def require_module(module: str): the signature has no parameter write, so
\* a call that passes it raises TypeError and returns no checker.
require_module(module, write) ==
    IF write # None
    THEN [raised |-> "TypeError", checker |-> None]
    ELSE [raised |-> "none", checker |-> Some(module)]

\* The checker that grants on a readable permission for any module.
checker_any_module(module, current_user) ==
    IF current_user.role = "admin"
    THEN [raised |-> "none", ret |-> Some(current_user)]
    ELSE IF \E i \in DOMAIN current_user.permissions :
                current_user.permissions[i].can_read
         THEN [raised |-> "none", ret |-> Some(current_user)]
         ELSE [raised |-> "403", ret |-> None]

checker(module, current_user) ==
    IF current_user.role = "admin"
    THEN [raised |-> "none", ret |-> Some(current_user)]
    ELSE IF \E i \in DOMAIN current_user.permissions :
                /\ current_user.permissions[i].module = module
                /\ current_user.permissions[i].can_read
         THEN [raised |-> "none", ret |-> Some(current_user)]
         ELSE [raised |-> "403", ret |-> None]

AccessIdle == [module |-> "none", write |-> None, user |-> None, raised |-> "none", ret |-> None]

\* A route guarded by require_module(module, write=...) is called by current_user.
Guarded(module, write, current_user) ==
    LET made == require_module(module, write)
        out  == IF made.raised # "none"
                THEN [raised |-> made.raised, ret |-> None]
                ELSE checker(Val(made.checker), current_user)
    IN  [module |-> module, write |-> write, user |-> Some(current_user),
         raised |-> out.raised, ret |-> out.ret]

CallGuard ==
    /\ access.module = "none"
    /\ \E module \in Modules, write \in WriteArgs, current_user \in CurrentUsers :
           access' = Guarded(module, write, current_user)
    /\ UNCHANGED <<clock, db, single, batch, call, seconds, limiter, redis, admitted>>

GuardReturn ==
    /\ access.module # "none"
    /\ access' = AccessIdle
    /\ UNCHANGED <<clock, db, single, batch, call, seconds, limiter, redis, admitted>>

(***************************************************************************)
(* The sliding-window rate limiter (core/rate_limiter.py).  Each worker    *)
(* process holds its own limiter object; the Redis store is shared.  A     *)
(* worker runs one check at a time (check is synchronous), and checks of   *)
(* different workers interleave between the two Redis pipelines.           *)
(***************************************************************************)

\* Bounds of the model: seconds the clocks advance, and the limit and the
\* window every check is called with.
MaxSeconds == 3

max_requests == 2

window_seconds == 2

Keys == {"a@test.com", "b@test.com"}

Workers == {1, 2}

\* The limiter of a worker after __init__, with no check in flight: _redis
\* tells whether _build_redis_client returned a client.
Limiter(has_redis) ==
    [ _redis    |-> has_redis,
      _requests |-> [k \in Keys |-> <<>>],
      pc        |-> "idle",
      key       |-> "none",
      now       |-> 0,
      last      |-> [key |-> "none", status |-> "none", via |-> "none"] ]

\* What a check gave its caller: nothing (ok) or HTTP 429, and the backend
\* that decided it.
Outcome(key, status, via) == [key |-> key, status |-> status, via |-> via]

\* The check has returned or raised: its frame is gone.
Finish(lim) == [lim EXCEPT !.pc = "idle", !.key = "none", !.now = 0]

\* _raise_limit: HTTPException(429).
_raise_limit(lim, key, via) == [lim EXCEPT !.last = Outcome(key, "429", via)]

\* _check_memory keeping the timestamps that are exactly window_seconds old.
_check_memory_inclusive(lim, key, now) ==
    LET cutoff == now - window_seconds
        young(t) == t >= cutoff
        kept == SelectSeq(lim._requests[key], young)
        pruned == [lim EXCEPT !._requests[key] = kept]
    IN  IF Len(kept) >= max_requests
        THEN _raise_limit(pruned, key, "memory")
        ELSE [pruned EXCEPT !._requests[key] = Append(kept, now),
                            !.last = Outcome(key, "ok", "memory")]

\* _check_memory with one list of timestamps for all keys.
_check_memory_shared(lim, key, now) ==
    LET cutoff == now - window_seconds
        young(t) == t > cutoff
        kept == SelectSeq(lim._requests[key], young)
        pruned == [lim EXCEPT !._requests = [k \in Keys |-> kept]]
    IN  IF Len(kept) >= max_requests
        THEN _raise_limit(pruned, key, "memory")
        ELSE [pruned EXCEPT !._requests = [k \in Keys |-> Append(kept, now)],
                            !.last = Outcome(key, "ok", "memory")]

_check_memory(lim, key, now) ==
    LET cutoff == now - window_seconds
        young(t) == t > cutoff
        kept == SelectSeq(lim._requests[key], young)
        pruned == [lim EXCEPT !._requests[key] = kept]
    IN  IF Len(kept) >= max_requests
        THEN _raise_limit(pruned, key, "memory")
        ELSE [pruned EXCEPT !._requests[key] = Append(kept, now),
                            !.last = Outcome(key, "ok", "memory")]

\* The first pipeline of _check_redis: zremrangebyscore(key, 0, cutoff), whose
\* range includes cutoff; zcard is the length of what is left.
Pruned(store, key, now) ==
    LET cutoff == now - window_seconds
        young(t) == t > cutoff
    IN  [store EXCEPT ![key] = SelectSeq(@, young)]

\* The second pipeline: zadd(key, {member: now}); the member is unique, so
\* the set grows by one, and it is kept in the order of its scores.
RECURSIVE InsertScore(_, _)
InsertScore(scores, now) ==
    IF scores = <<>> THEN <<now>>
    ELSE IF now < Head(scores) THEN <<now>> \o scores
    ELSE <<Head(scores)>> \o InsertScore(Tail(scores), now)

Added(store, key, now) == [store EXCEPT ![key] = InsertScore(@, now)]

\* The handler of a Redis error that keeps the client.
OnRedisError_keeping(lim) == lim

\* except Exception in check: the limiter gives up its Redis client.
OnRedisError(lim) == [lim EXCEPT !._redis = FALSE]

\* The admissions on record, by the backend that admitted.
NoAdmissions ==
    [ redis  |-> [k \in Keys |-> <<>>],
      memory |-> [w \in Workers |-> [k \in Keys |-> <<>>]] ]

Admit(adm, w, lim) ==
    IF lim.last.status # "ok" THEN adm
    ELSE IF lim.last.via = "memory"
         THEN [adm EXCEPT !.memory[w][lim.last.key] = Append(@, seconds)]
         ELSE [adm EXCEPT !.redis[lim.last.key] = Append(@, seconds)]

\* The admissions that are younger than window_seconds at the second now.
StillYoung(adm, now) ==
    LET young(t) == now - t < window_seconds
    IN  [ redis  |-> [k \in Keys |-> SelectSeq(adm.redis[k], young)],
          memory |-> [w \in Workers |->
                        [k \in Keys |-> SelectSeq(adm.memory[w][k], young)]] ]

\* check(key, max_requests, window_seconds) at worker w: without a Redis
\* client the in-memory limiter decides at once; with one, _check_redis
\* reads the time and goes on to its first pipeline.
check(w, key) ==
    /\ limiter[w].pc = "idle"
    /\ IF limiter[w]._redis
       THEN /\ limiter' = [limiter EXCEPT ![w] =
                              [@ EXCEPT !.pc = "prune", !.key = key, !.now = seconds]]
            /\ UNCHANGED admitted
       ELSE LET lim == _check_memory(limiter[w], key, seconds)
            IN  /\ limiter' = [limiter EXCEPT ![w] = lim]
                /\ admitted' = Admit(admitted, w, lim)
    /\ UNCHANGED <<clock, db, single, batch, call, seconds, redis, access>>

\* The first pipeline runs: the 429 of the Redis path is raised through
\* check (except HTTPException: raise).
RedisPrune(w) ==
    LET lim == limiter[w]
        store == Pruned(redis, lim.key, lim.now)
    IN  /\ lim.pc = "prune"
        /\ redis' = store
        /\ limiter' = [limiter EXCEPT ![w] =
                          IF Len(store[lim.key]) >= max_requests
                          THEN Finish(_raise_limit(lim, lim.key, "redis"))
                          ELSE [lim EXCEPT !.pc = "add"]]
        /\ UNCHANGED <<clock, db, single, batch, call, seconds, admitted, access>>

\* The second pipeline runs and check returns.
RedisAdd(w) ==
    LET lim == limiter[w]
        done == Finish([lim EXCEPT !.last = Outcome(lim.key, "ok", "redis")])
    IN  /\ lim.pc = "add"
        /\ redis' = Added(redis, lim.key, lim.now)
        /\ limiter' = [limiter EXCEPT ![w] = done]
        /\ admitted' = Admit(admitted, w, done)
        /\ UNCHANGED <<clock, db, single, batch, call, seconds, access>>

\* A pipeline raises (connection lost, timeout): the server has run it or
\* has not; check drops the client and lets _check_memory decide.
RedisFails(w) ==
    LET lim == limiter[w]
        done == Finish(_check_memory(OnRedisError(lim), lim.key, seconds))
    IN  /\ lim.pc \in {"prune", "add"}
        /\ \E applied \in BOOLEAN :
               redis' = IF ~applied THEN redis
                        ELSE IF lim.pc = "prune" THEN Pruned(redis, lim.key, lim.now)
                        ELSE Added(redis, lim.key, lim.now)
        /\ limiter' = [limiter EXCEPT ![w] = done]
        /\ admitted' = Admit(admitted, w, done)
        /\ UNCHANGED <<clock, db, single, batch, call, seconds, access>>

\* A second passes.
Tick ==
    /\ seconds < MaxSeconds
    /\ seconds' = seconds + 1
    /\ admitted' = StillYoung(admitted, seconds + 1)
    /\ UNCHANGED <<clock, db, single, batch, call, limiter, redis, access>>

\* No limiter has a Redis client, nothing was checked, no guard was called.
GuardsInit ==
    /\ seconds = 0
    /\ limiter = [w \in Workers |-> Limiter(FALSE)]
    /\ redis = [k \in Keys |-> <<>>]
    /\ admitted = NoAdmissions
    /\ access = AccessIdle

(***************************************************************************)
(* Initial stores.  A store is loaded from a list of at most MaxRows rows, *)
(* each tagged with its table; a row gets the next id of its table.  A     *)
(* time entry names its task by id, which must be a row the list loads     *)
(* (the foreign key).                                                      *)
(***************************************************************************)

TaskRows ==
    {<<"task", [client_id |-> cid, status |-> st, due_date |-> due]>> :
        cid \in ClientIds, st \in StatusValues, due \in DueValues}

LogRows ==
    {<<"log", [client_id |-> cid, occurred_at |-> log[1],
               requires_followup |-> log[2], followup_date |-> log[3]]>> :
        cid \in ClientIds, log \in LogValues}

DigestRows ==
    {<<"digest", [client_id |-> cid, period_start |-> d]>> :
        cid \in ClientIds, d \in PeriodValues}

EntryRows ==
    {<<"entry", [task_id |-> Some(tid), user_id |-> uid, minutes |-> m, date |-> d]>> :
        tid \in RowIds, uid \in UserIds, m \in MinutesValues, d \in EntryDates}

SeedRows == TaskRows \cup LogRows \cup DigestRows \cup EntryRows

SeedLists == UNION {[1..n -> SeedRows] : n \in 0..MaxRows}

\* The rows of one table in a seed list, in order, as that table.
Load(seed, tag) ==
    LET idx == {i \in DOMAIN seed : seed[i][1] = tag}
        nth(k) == CHOOSE i \in idx : Cardinality({j \in idx : j < i}) = k - 1
    IN  [k \in RowIds |->
            IF k <= Cardinality(idx) THEN Some(seed[nth(k)][2]) ELSE None]

InitClients ==
    [cid \in ClientIds |->
        [name |-> IF cid = 1 THEN "Acme" ELSE "Globex",
         monthly_budget |-> IF cid = 1 THEN Some(500) ELSE None,
         status |-> "active"]]

InitUsers ==
    [uid \in UserIds |-> [hourly_rate |-> IF uid = 1 THEN None ELSE Some(30)]]

Init ==
    /\ clock = Day0
    /\ clients = InitClients
    /\ users = InitUsers
    /\ \E seed \in SeedLists :
        /\ tasks = Load(seed, "task")
        /\ communication_logs = Load(seed, "log")
        /\ weekly_digests = Load(seed, "digest")
        /\ time_entries = Load(seed, "entry")
    /\ \A e \in Present(time_entries) :
           Val(Row(time_entries, e).task_id) \in Present(tasks)
    /\ single = SingleIdle
    /\ batch = BatchIdle
    /\ call = CallIdle
    /\ GuardsInit

Evaluate ==
    \/ \E cid \in ClientIds : SingleCall(cid)
    \/ SingleFetchComm
    \/ SingleFetchTasks
    \/ SingleFetchOverdue
    \/ SingleFetchDigests
    \/ SingleFetchCost
    \/ SingleFetchFollowups
    \/ SingleFetchFails
    \/ SingleReturn
    \/ \E ids \in ClientLists : BatchCall(ids)
    \/ BatchFetchComm
    \/ BatchFetchTasks
    \/ BatchFetchOverdue
    \/ BatchFetchDigests
    \/ BatchFetchCost
    \/ BatchFetchFollowups
    \/ BatchFetchFails
    \/ SortScores
    \/ BatchReturn

Next == Evaluate

Spec == Init /\ [][Next]_vars

\* The listing endpoint alone, over clients of either status under either name.
ClientStatusValues == {"active", "paused"}

ListClients ==
    {[cid \in ClientIds |->
        [InitClients[cid] EXCEPT !.name = InitClients[names[cid]].name,
                                 !.status = st[cid]]] :
        names \in Permutations(ClientIds), st \in [ClientIds -> ClientStatusValues]}

ListInit ==
    /\ clock = Day0
    /\ clients \in ListClients
    /\ users = InitUsers
    /\ \E seed \in SeedLists :
        /\ tasks = Load(seed, "task")
        /\ communication_logs = Load(seed, "log")
        /\ weekly_digests = Load(seed, "digest")
        /\ time_entries = Load(seed, "entry")
    /\ \A e \in Present(time_entries) :
           Val(Row(time_entries, e).task_id) \in Present(tasks)
    /\ single = SingleIdle
    /\ batch = BatchIdle
    /\ call = CallIdle
    /\ GuardsInit

ListNext ==
    \/ list_health_scores
    \/ BatchFetchComm
    \/ BatchFetchTasks
    \/ BatchFetchOverdue
    \/ BatchFetchDigests
    \/ BatchFetchCost
    \/ BatchFetchFollowups
    \/ BatchFetchFails
    \/ SortScores
    \/ BatchReturn

ListSpec == ListInit /\ [][ListNext]_vars

\* The helpers called directly, on an empty store with no evaluation in flight.
FnInit ==
    /\ clock = Day0
    /\ clients = InitClients
    /\ users = InitUsers
    /\ tasks = [i \in RowIds |-> None]
    /\ communication_logs = [i \in RowIds |-> None]
    /\ weekly_digests = [i \in RowIds |-> None]
    /\ time_entries = [i \in RowIds |-> None]
    /\ single = SingleIdle
    /\ batch = BatchIdle
    /\ call = CallIdle
    /\ GuardsInit

FnNext ==
    \/ CallComm
    \/ CallTask
    \/ CallDigest
    \/ CallProfit
    \/ CallFollowup
    \/ CallBuild
    \/ CallScore
    \/ CallReturn

FnSpec == FnInit /\ [][FnNext]_vars

\* The guard called on every user, on an empty store.
AuthNext ==
    \/ CallGuard
    \/ GuardReturn

AuthSpec == FnInit /\ [][AuthNext]_vars

\* The store and the evaluators of the limiter runs: empty and idle.
NoEvaluation ==
    /\ clock = Day0
    /\ clients = InitClients
    /\ users = InitUsers
    /\ tasks = [i \in RowIds |-> None]
    /\ communication_logs = [i \in RowIds |-> None]
    /\ weekly_digests = [i \in RowIds |-> None]
    /\ time_entries = [i \in RowIds |-> None]
    /\ single = SingleIdle
    /\ batch = BatchIdle
    /\ call = CallIdle
    /\ access = AccessIdle

\* One worker whose limiter has no Redis client (REDIS_URL unset, or the
\* ping at start failed) takes the checks.
MemoryInit ==
    /\ NoEvaluation
    /\ seconds = 0
    /\ limiter = [w \in Workers |-> Limiter(FALSE)]
    /\ redis = [k \in Keys |-> <<>>]
    /\ admitted = NoAdmissions

MemoryNext ==
    \/ Tick
    \/ \E key \in Keys : check(1, key)

MemorySpec == MemoryInit /\ [][MemoryNext]_vars

\* Two workers whose limiters share the Redis store check the same key; the
\* connection of worker 1 can fail.
RedisInit ==
    /\ NoEvaluation
    /\ seconds = 0
    /\ limiter = [w \in Workers |-> Limiter(TRUE)]
    /\ redis = [k \in Keys |-> <<>>]
    /\ admitted = NoAdmissions

\* The key the two workers are asked to check.
SharedKey == "a@test.com"

RedisNext ==
    \/ Tick
    \/ \E w \in Workers : check(w, SharedKey)
    \/ \E w \in Workers : RedisPrune(w)
    \/ \E w \in Workers : RedisAdd(w)
    \/ RedisFails(1)

RedisSpec == RedisInit /\ [][RedisNext]_vars

\* The store the interleaved runs start from: client 2, with no budget or a
\* budget of 0, has one completed task with ten hours logged on it this month
\* by user 1; client 1 has nothing.
ConcClients ==
    {[InitClients EXCEPT ![2].monthly_budget = b] : b \in {None, Some(0)}}

ConcInit ==
    /\ clock = Day0
    /\ clients \in ConcClients
    /\ users = InitUsers
    /\ tasks = [i \in RowIds |->
                  IF i = 1
                  THEN Some([client_id |-> 2, status |-> "completed", due_date |-> None])
                  ELSE None]
    /\ communication_logs = [i \in RowIds |-> None]
    /\ weekly_digests = [i \in RowIds |-> None]
    /\ time_entries = [i \in RowIds |->
                         IF i = 1
                         THEN Some([task_id |-> Some(1), user_id |-> 1,
                                    minutes |-> Some(600), date |-> Day0 - 2])
                         ELSE None]
    /\ single = SingleIdle
    /\ batch = BatchIdle
    /\ call = CallIdle
    /\ GuardsInit

\* Requests for one client's health and for the listing interleaved, at their
\* awaits, with the routes that write tasks: tasks of client 1, due in the past,
\* come, change status and go while fetches are in flight.
WriteTasks ==
    \/ \E st \in StatusValues : create_task(1, st, Some(Day0 - 35))
    \/ \E id \in RowIds, st \in StatusValues : update_task(id, st)
    \/ \E id \in RowIds : delete_task(id)

ConcNext ==
    \/ \E cid \in ClientIds : SingleCall(cid)
    \/ SingleFetchComm
    \/ SingleFetchTasks
    \/ SingleFetchOverdue
    \/ SingleFetchDigests
    \/ SingleFetchCost
    \/ SingleFetchFollowups
    \/ SingleFetchFails
    \/ SingleReturn
    \/ list_health_scores
    \/ BatchFetchComm
    \/ BatchFetchTasks
    \/ BatchFetchOverdue
    \/ BatchFetchDigests
    \/ BatchFetchCost
    \/ BatchFetchFollowups
    \/ BatchFetchFails
    \/ SortScores
    \/ BatchReturn
    \/ WriteTasks

ConcSpec == ConcInit /\ [][ConcNext]_vars

(***************************************************************************)
(* Properties                                                              *)
(***************************************************************************)

\* "6 batch queries": the fetches of one compute_health_batch call.
BatchQueries == 6

\* The place of each fetch in the order the evaluators issue them.
FetchIndex(kind) ==
    CASE kind = "comm" -> 1
      [] kind = "tasks" -> 2
      [] kind = "overdue" -> 3
      [] kind = "digests" -> 4
      [] kind = "cost" -> 5
      [] kind = "followups" -> 6

\* Client cid has no row in any activity table.
NoActivity(cid) ==
    /\ LogsOf(cid) = {}
    /\ TasksOf(cid) = {}
    /\ \A i \in Present(weekly_digests) : Row(weekly_digests, i).client_id # cid
    /\ \A i \in Present(time_entries) :
           Row(time_entries, i).task_id # None => EntryClient(i) # cid

\* C1: compute_health_batch(clients) holds, at each place of the list, exactly
\* the result compute_health returns for that client, when both read the same
\* store at the same instant (no write since either call, same now), also for
\* clients for which compute_health skips the overdue or the cost fetch.
C1_BatchEqualsSingle ==
    ( /\ single.pc = "done" /\ batch.pc = "done"
      /\ ~single.db_changed /\ ~batch.db_changed
      /\ single.now = batch.now )
    => \A i \in DOMAIN batch.clients :
           batch.clients[i] = Val(single.client)
           => Val(batch.result)[i] = Val(single.result)

\* Both evaluators finished on client 2, which has no budget (compute_health
\* skipped the cost fetch) while time entries are logged against it (the
\* batch's cost_map has its key), next to client 1 in the list.
C1_Witness ==
    /\ single.pc = "done" /\ batch.pc = "done"
    /\ Val(single.client).id = 2
    /\ single.nfetch < BatchQueries
    /\ Len(batch.clients) = 2
    /\ \E i \in DOMAIN batch.clients : batch.clients[i].id = 2
    /\ \E i \in DOMAIN batch.clients : batch.clients[i].id = 1
    /\ JoinedEntriesOf(2, batch.now) # {}

\* C2 (as claimed): for any non-negative counts, any days, budget and cost,
\* every factor value a helper returns lies in its interval (communication
\* 0..25, tasks 0..25, digests 0..15, profitability 0..20, followups 0..15)
\* and the composite score lies in 0..100.
C2_FactorsBounded ==
    /\ call.fn = "_comm_score_from_days" => Val(call.ret) \in 0..25
    /\ ( call.fn = "_task_score_from_counts"
         /\ \A k \in 1..3 : call.args[k] >= 0 ) => Val(call.ret) \in 0..25
    /\ (call.fn = "_digest_score_from_count" /\ call.args[1] >= 0)
           => Val(call.ret) \in 0..15
    /\ call.fn = "_profit_score_from_cost" => Val(call.ret) \in 0..20
    /\ (call.fn = "_followup_score_from_overdue" /\ call.args[1] >= 0)
           => Val(call.ret) \in 0..15
    /\ ( call.fn = "score" /\ \A k \in 1..3 : call.args[2][k] >= 0 )
           => /\ Val(call.ret).score \in 0..100
              /\ Val(call.ret).factors.communication \in 0..25
              /\ Val(call.ret).factors.tasks \in 0..25
              /\ Val(call.ret).factors.digests \in 0..15
              /\ Val(call.ret).factors.profitability \in 0..20
              /\ Val(call.ret).factors.followups \in 0..15

\* A task aggregate is malformed: a negative count, or more completed than total.
Malformed(task_args) ==
    \/ \E k \in 1..3 : task_args[k] < 0
    \/ task_args[2] > task_args[1]

\* C3 (as claimed): a malformed task aggregate (completed > total, or a negative
\* count) makes the evaluation raise; it never returns an ordinary result.
C3_MalformedReported ==
    /\ (call.fn = "_task_score_from_counts" /\ Malformed(call.args)) => call.raised
    /\ (call.fn = "score" /\ Malformed(call.args[2])) => call.raised

\* An evaluation in which a fetch raised has failed with that very exception,
\* holds no result, and issued the failed fetch once and nothing after it.
FailedCleanly(inv) ==
    /\ inv.error # None =>
          /\ inv.pc = "failed"
          /\ inv.result = None
          /\ Val(inv.error) \in FetchPcs
          /\ inv.nfetch <= FetchIndex(Val(inv.error))
    /\ inv.pc = "failed" => inv.error # None

\* C4: when a fetch of compute_health or compute_health_batch fails, the failure
\* reaches the caller unmodified: no retry, no default in place of the failed
\* aggregate, no result (neither a partial list nor neutral factors).
C4_FetchFailurePropagates ==
    /\ FailedCleanly(single)
    /\ FailedCleanly(batch)
    /\ batch.pc = "failed" => batch.nfetch = FetchIndex(Val(batch.error))

\* The batch failed at its fifth fetch, after four had succeeded, while
\* compute_health failed at its first.
C4_Witness ==
    /\ batch.pc = "failed" /\ batch.error = Some("cost") /\ batch.nfetch = 5
    /\ single.pc = "failed" /\ single.error = Some("comm")

\* C5: the number of fetches compute_health_batch issues does not depend on the
\* number of clients in the list: one grouped fetch per aggregate kind, six in
\* all, for a list of one client and for a list of several.
C5_BatchFetchCountConstant ==
    /\ batch.nfetch <= BatchQueries
    /\ (batch.pc = "done" /\ batch.clients # <<>>) => batch.nfetch = BatchQueries

\* A batch over two clients has finished.
C5_Witness ==
    /\ batch.pc = "done"
    /\ Len(batch.clients) = 2
    /\ batch.clients[1].id # batch.clients[2].id

\* C6: compute_health_batch returns one result per client of its list: as many
\* results as clients, the i-th with the id and name of the i-th client, and an
\* empty list for an empty list.
C6_OneResultPerClient ==
    batch.pc = "done" =>
        /\ Len(Val(batch.result)) = Len(batch.clients)
        /\ \A i \in DOMAIN batch.clients :
               /\ Val(batch.result)[i].client_id = batch.clients[i].id
               /\ Val(batch.result)[i].client_name = batch.clients[i].name

\* A batch over the list <<client 2, client 1>> has finished.
C6_Witness ==
    /\ batch.pc = "done"
    /\ Len(batch.clients) = 2
    /\ batch.clients[1].id = 2 /\ batch.clients[2].id = 1
    /\ Val(batch.result)[1].client_name = "Globex"

\* The factors a result must show for a client without any activity.
NeutralFactors(r, budget) ==
    /\ r.factors.communication = 0
    /\ r.factors.tasks = 15
    /\ r.factors.digests = 0
    /\ r.factors.followups = 15
    /\ budget = None => r.factors.profitability = 10

\* C7: for a client with no activity at all both evaluators return a result;
\* its absence from every lookup map reads as zero or absent: communication 0,
\* tasks 15, digests 0, followups 15, and profitability 10 without a budget.
C7_NoActivityNeutral ==
    /\ (single.pc = "done" /\ ~single.db_changed
        /\ NoActivity(Val(single.client).id))
           => /\ single.result # None
              /\ NeutralFactors(Val(single.result), Val(single.client).monthly_budget)
    /\ (batch.pc = "done" /\ ~batch.db_changed)
           => \A i \in DOMAIN batch.clients :
                  NoActivity(batch.clients[i].id)
                  => NeutralFactors(Val(batch.result)[i],
                                    batch.clients[i].monthly_budget)

\* Both evaluators finished on client 2, which has no activity and no budget,
\* while client 1, also in the batch, has tasks: the batch's maps are not empty.
C7_Witness ==
    /\ single.pc = "done" /\ Val(single.client).id = 2
    /\ batch.pc = "done" /\ Len(batch.clients) = 2
    /\ batch.clients[1].id = 1 /\ batch.clients[2].id = 2
    /\ NoActivity(2) /\ TasksOf(1) # {} /\ LogsOf(1) # {}
    /\ Val(batch.result)[2].factors.profitability = 10

\* C8: task_score is 15 when total = 0; for total >= 1, 0 <= completed <= total
\* and overdue >= 0 it is floor(20*completed/total) + 5 when overdue = 0, and
\* max(0, floor(20*completed/total) - min(3*overdue, 10)) when overdue > 0.
C8_TaskScore ==
    call.fn = "_task_score_from_counts" =>
        LET total == call.args[1]
            completed == call.args[2]
            overdue == call.args[3]
            base == (20 * completed) \div total
            penalty == IF 3 * overdue < 10 THEN 3 * overdue ELSE 10
        IN  /\ total = 0 => call.ret = Some(15)
            /\ (total >= 1 /\ 0 <= completed /\ completed <= total /\ overdue = 0)
                   => call.ret = Some(base + 5)
            /\ (total >= 1 /\ 0 <= completed /\ completed <= total /\ overdue > 0)
                   => call.ret = Some(IF base - penalty > 0 THEN base - penalty ELSE 0)

\* task_score(6, 5, 5): base 16, penalty capped at 10.
C8_Witness ==
    /\ call.fn = "_task_score_from_counts"
    /\ call.args = <<6, 5, 5>>
    /\ call.ret = Some(6)

\* C9: communication_score is 0 for an absent last contact, and for d days 25
\* if d <= 3, 20 if 3 < d <= 7, 15 if 7 < d <= 14, 8 if 14 < d <= 30, 0 if
\* d > 30: each band's upper bound is inclusive.
C9_CommScore ==
    call.fn = "_comm_score_from_days" =>
        LET days == call.args[1]
        IN  IF days = None THEN call.ret = Some(0)
            ELSE LET d == Val(days)
                 IN  /\ d <= 3 => call.ret = Some(25)
                     /\ (3 < d /\ d <= 7) => call.ret = Some(20)
                     /\ (7 < d /\ d <= 14) => call.ret = Some(15)
                     /\ (14 < d /\ d <= 30) => call.ret = Some(8)
                     /\ d > 30 => call.ret = Some(0)

\* communication_score(30) = 8: the last band's edge.
C9_Witness ==
    /\ call.fn = "_comm_score_from_days"
    /\ call.args = <<Some(30)>>
    /\ call.ret = Some(8)

\* C10: profitability_score is 10 when the budget is absent, zero or negative;
\* otherwise, with ratio = cost / budget, 20 if ratio <= 0.7, 15 if
\* 0.7 < ratio <= 0.9, 10 if 0.9 < ratio <= 1.0, 5 if 1.0 < ratio <= 1.2 and 0
\* if ratio > 1.2 (ratio <= k/10 is 10*cost <= k*budget for a positive budget).
C10_ProfitScore ==
    call.fn = "_profit_score_from_cost" =>
        LET budget == call.args[1]
            cost == call.args[2]
        IN  IF budget = None THEN call.ret = Some(10)
            ELSE LET b == Val(budget)
                     AtMost(k) == 10 * cost <= k * b
                 IN  /\ b <= 0 => call.ret = Some(10)
                     /\ (b > 0 /\ AtMost(7)) => call.ret = Some(20)
                     /\ (b > 0 /\ ~AtMost(7) /\ AtMost(9)) => call.ret = Some(15)
                     /\ (b > 0 /\ ~AtMost(9) /\ AtMost(10)) => call.ret = Some(10)
                     /\ (b > 0 /\ ~AtMost(10) /\ AtMost(12)) => call.ret = Some(5)
                     /\ (b > 0 /\ ~AtMost(12)) => call.ret = Some(0)

\* profitability_score(1000, 1200) = 5: ratio exactly 1.2.
C10_Witness ==
    /\ call.fn = "_profit_score_from_cost"
    /\ call.args = <<Some(1000), 1200>>
    /\ call.ret = Some(5)

\* C11: digest_score(n) is min(min(n, 4) * 4, 15) for every report count
\* n >= 0: 0, 4, 8, 12 for n = 0, 1, 2, 3 and 15 for every n >= 4.
C11_DigestScore ==
    (call.fn = "_digest_score_from_count" /\ call.args[1] >= 0) =>
        LET n == call.args[1]
            capped == IF n < 4 THEN n ELSE 4
        IN  /\ call.ret = Some(IF capped * 4 < 15 THEN capped * 4 ELSE 15)
            /\ n = 0 => call.ret = Some(0)
            /\ n = 1 => call.ret = Some(4)
            /\ n = 2 => call.ret = Some(8)
            /\ n = 3 => call.ret = Some(12)
            /\ n >= 4 => call.ret = Some(15)

\* digest_score(5) = 15: past the cap.
C11_Witness ==
    /\ call.fn = "_digest_score_from_count"
    /\ call.args = <<5>>
    /\ call.ret = Some(15)

\* C12: followup_score(n) is 15 when n = 0, 8 when n is 1 or 2, and 0 when
\* n >= 3.
C12_FollowupScore ==
    call.fn = "_followup_score_from_overdue" =>
        LET n == call.args[1]
        IN  /\ n = 0 => call.ret = Some(15)
            /\ n \in {1, 2} => call.ret = Some(8)
            /\ n >= 3 => call.ret = Some(0)

\* followup_score(3) = 0: the step's edge.
C12_Witness ==
    /\ call.fn = "_followup_score_from_overdue"
    /\ call.args = <<3>>
    /\ call.ret = Some(0)

\* C13: the assembler sets score to the sum of the five factor values clamped to
\* 0..100, risk_level to healthy when score >= 70, warning when
\* 40 <= score < 70 and at_risk when score < 40, and reports the five factor
\* values as given, unclamped.
C13_BuildResult ==
    call.fn = "_build_result" =>
        LET a == call.args
            r == Val(call.ret)
            sum == a[1] + a[2] + a[3] + a[4] + a[5]
        IN  /\ r.score = (IF sum < 0 THEN 0 ELSE IF sum > 100 THEN 100 ELSE sum)
            /\ r.score >= 70 => r.risk_level = "healthy"
            /\ (40 <= r.score /\ r.score < 70) => r.risk_level = "warning"
            /\ r.score < 40 => r.risk_level = "at_risk"
            /\ r.factors = [ communication |-> a[1], tasks |-> a[2],
                             digests |-> a[3], profitability |-> a[4],
                             followups |-> a[5] ]

\* A sum of 165 was clamped to 100 while the task factor is reported as 105.
C13_Witness ==
    /\ call.fn = "_build_result"
    /\ call.args = <<25, 105, 15, 20, 0>>
    /\ Val(call.ret).score = 100
    /\ Val(call.ret).factors.tasks = 105

\* C14: communication_score is non-increasing in the days since contact,
\* profitability_score is non-increasing in cost for a fixed positive budget,
\* followup_score is non-increasing in the count of overdue follow-ups: the
\* value a call returned is at least the value of every larger argument.
C14_Monotone ==
    /\ (call.fn = "_comm_score_from_days" /\ call.args[1] # None) =>
           \A d2 \in DaysInputs \ {None} :
               Val(call.args[1]) <= Val(d2)
               => Val(call.ret) >= _comm_score_from_days(d2)
    /\ (call.fn = "_profit_score_from_cost" /\ call.args[1] # None) =>
           (Val(call.args[1]) > 0 =>
               \A c2 \in CostInputs :
                   call.args[2] <= c2
                   => Val(call.ret) >= _profit_score_from_cost(call.args[1], c2))
    /\ (call.fn = "_followup_score_from_overdue" /\ call.args[1] >= 0) =>
           \A n2 \in CountInputs :
               call.args[1] <= n2
               => Val(call.ret) >= _followup_score_from_overdue(n2)

\* followup_score(2) returned 8, above the 0 of larger counts and below the 15
\* of a smaller one.
C14_Witness ==
    /\ call.fn = "_followup_score_from_overdue"
    /\ call.args = <<2>>
    /\ call.ret = Some(8)
    /\ _followup_score_from_overdue(3) < 8

\* The budget is absent or 0.
NoBudget(monthly_budget) == monthly_budget = None \/ monthly_budget = Some(0)

\* C15: in every evaluation, single or batch, also with tasks written between
\* its fetches, a client for which the evaluation counted zero tasks gets 15 on
\* the task factor whatever overdue count it fetched, and a client whose budget
\* is absent or 0 gets 10 on the profitability factor whatever cost is logged.
C15_NeutralDefaults ==
    [][ /\ (single'.task_score # None /\ Val(single'.task_args)[1] = 0)
               => single'.task_score = Some(15)
        /\ (single'.profit_score # None
                /\ NoBudget(Val(single'.client).monthly_budget))
               => single'.profit_score = Some(10)
        /\ (single.pc = "followups" /\ single'.pc = "done")
               => /\ Val(single'.result).factors.tasks = Val(single.task_score)
                  /\ Val(single'.result).factors.profitability = Val(single.profit_score)
        /\ (batch.pc = "followups" /\ batch'.pc = "done")
               => \A i \in DOMAIN batch.client_ids :
                      LET cid == batch.client_ids[i]
                          r == Val(batch'.result)[i]
                          args == BatchTaskArgs(batch.task_status_map,
                                                batch.overdue_map, cid)
                      IN  /\ args[1] = 0 => r.factors.tasks = 15
                          /\ NoBudget(batch.client_budget_map[cid])
                                 => r.factors.profitability = 10
      ]_vars

\* A batch over clients 1 and 2 finished while tasks were being written:
\* client 1, now with a task, was scored 15 for having none, and client 2, with
\* a budget of 0 and hours logged this month, was scored 10.
C15_Witness ==
    /\ batch.pc = "done" /\ batch.db_changed
    /\ Len(batch.clients) = 2
    /\ batch.clients[1].id = 1 /\ batch.clients[2].id = 2
    /\ batch.clients[2].monthly_budget = Some(0)
    /\ TasksOf(1) # {}
    /\ JoinedEntriesOf(2, batch.now) # {}
    /\ Val(batch.result)[1].factors.tasks = 15
    /\ Val(batch.result)[2].factors.profitability = 10

\* C16: the best signal in every factor (2 days since contact, 10 of 10 tasks
\* completed and none overdue, 6 recent reports, cost 700 against budget 1000,
\* no overdue follow-up) gives factors 25, 25, 15, 20, 15, score 100, healthy.
C16_ScenarioA ==
    (call.fn = "score" /\ call.args = <<Some(2), <<10, 10, 0>>, 6, Some(1000), 700, 0>>)
        => /\ Val(call.ret).factors = [ communication |-> 25, tasks |-> 25,
                                         digests |-> 15, profitability |-> 20,
                                         followups |-> 15 ]
           /\ Val(call.ret).score = 100
           /\ Val(call.ret).risk_level = "healthy"

\* The scenario's signals have been scored.
C16_Witness ==
    /\ call.fn = "score"
    /\ call.args = <<Some(2), <<10, 10, 0>>, 6, Some(1000), 700, 0>>
    /\ call.ret # None

\* C17: last contact 45 days ago, no tasks, no recent reports, no budget and 3
\* overdue follow-ups give factors 0, 15, 0, 10, 0, score 25, at_risk.
C17_ScenarioB ==
    (call.fn = "score" /\ call.args = <<Some(45), <<0, 0, 0>>, 0, None, 0, 3>>)
        => /\ Val(call.ret).factors = [ communication |-> 0, tasks |-> 15,
                                         digests |-> 0, profitability |-> 10,
                                         followups |-> 0 ]
           /\ Val(call.ret).score = 25
           /\ Val(call.ret).risk_level = "at_risk"

\* The scenario's signals have been scored.
C17_Witness ==
    /\ call.fn = "score"
    /\ call.args = <<Some(45), <<0, 0, 0>>, 0, None, 0, 3>>
    /\ call.ret # None

\* C18: compute_health and compute_health_batch only read.  No step of an
\* invocation, successful or failed, changes a table of the store or the client
\* objects it was handed, and nothing of an invocation is left once it returned:
\* the next one starts from an empty frame.
C18_ReadOnly ==
    [][ /\ UNCHANGED db
        /\ (single.pc # "idle" /\ single'.pc \notin {"idle", "failed"})
               => single'.client = single.client
        /\ (batch.pc # "idle" /\ batch'.pc \notin {"idle", "failed"})
               => batch'.clients = batch.clients
        /\ single'.client # None
               => Val(single'.client) = ClientObject(Val(single'.client).id)
        /\ \A i \in DOMAIN batch'.clients :
               batch'.clients[i] = ClientObject(batch'.clients[i].id)
        /\ single'.pc = "idle" => single' = SingleIdle
        /\ batch'.pc = "idle" => batch' = BatchIdle
        /\ (single.pc = "idle" /\ single'.pc # "idle")
               => single' = [SingleIdle EXCEPT !.pc = "comm", !.now = clock,
                                               !.client = single'.client]
      ]_vars

\* Over a store with rows, a compute_health has succeeded and a
\* compute_health_batch has failed.
C18_Witness ==
    /\ RowCount > 0
    /\ single.pc = "done"
    /\ batch.pc = "failed"

\* What one evaluation of client cid gives when all its fetches read the store
\* as it is now.
HealthOf(cid, now) ==
    LET last_comm_date == SelectLastComm(cid)
        days_since == IF last_comm_date # None
                      THEN Some(now - Val(last_comm_date))
                      ELSE None
        task_map == SelectTaskCounts(cid)
        total_tasks == SumValues(task_map)
        overdue == IF total_tasks > 0 THEN SelectOverdueCount(cid, now) ELSE 0
        client == ClientObject(cid)
        estimated_cost == IF HasBudget(client) THEN SelectCost(cid, now) ELSE 0
    IN  _build_result(cid, client.name,
            _comm_score_from_days(days_since),
            _task_score_from_counts(total_tasks, Get(task_map, "completed", 0), overdue),
            _digest_score_from_count(SelectDigestCount(cid, now)),
            _profit_score_from_cost(client.monthly_budget, estimated_cost),
            _followup_score_from_overdue(SelectOverdueFollowups(cid, now)))

\* C19: invocations of compute_health and compute_health_batch interleaved at
\* their fetches, with tasks written in between or not, do not touch each
\* other: a step that is not a write of the store changes the frame of at most
\* one invocation, and an invocation during which nothing was written returns
\* what the store alone determines, whatever the other invocation did meanwhile.
C19_InvocationsIsolated ==
    /\ [][(single' # single /\ batch' # batch) => db' # db]_vars
    /\ []( /\ (single.pc = "done" /\ ~single.db_changed)
                  => Val(single.result) = HealthOf(Val(single.client).id, single.now)
           /\ (batch.pc = "done" /\ ~batch.db_changed)
                  => \A i \in DOMAIN batch.clients :
                         Val(batch.result)[i] = HealthOf(batch.clients[i].id, batch.now) )

\* Both invocations are between two fetches, the batch having seen a write of
\* the store that compute_health, called after it, has not.
C19_Witness ==
    /\ single.pc = "digests" /\ ~single.db_changed
    /\ batch.pc = "cost" /\ batch.db_changed
    /\ Val(single.client).id = 1
    /\ 1 \in Ids(batch.client_ids)
    /\ TasksOf(1) # {}

\* The ids of the active clients.
ActiveIds == {c \in ClientIds : clients[c].status = "active"}

\* b holds the entries of a, each as often, in some order.
IsPermutation(a, b) ==
    /\ Len(a) = Len(b)
    /\ \E f \in Permutations(DOMAIN a) : \A i \in DOMAIN a : b[i] = a[f[i]]

\* C20: the listing endpoint returns the batch results of all active clients
\* sorted ascending by score: each entry's score is at most the next one's, and
\* the response is a permutation of what compute_health_batch returned.
C20_ListingSorted ==
    /\ [][(batch.pc = "done" /\ batch'.pc = "sorted")
             => IsPermutation(Val(batch.result), Val(batch'.result))]_vars
    /\ [](batch.pc = "sorted" =>
             LET response == Val(batch.result)
             IN  /\ \A i \in 1..(Len(response) - 1) :
                        response[i].score <= response[i + 1].score
                 /\ Len(response) = Cardinality(ActiveIds)
                 /\ {response[i].client_id : i \in DOMAIN response} = ActiveIds)

\* Both clients are active; the response lists Globex, second by name, first,
\* its score being the lower one.
C20_Witness ==
    /\ batch.pc = "sorted"
    /\ Len(Val(batch.result)) = 2
    /\ Val(batch.result)[1].client_name = "Globex"
    /\ Val(batch.result)[1].score < Val(batch.result)[2].score

\* A task aggregate is well-formed: 0 <= completed <= total and overdue >= 0.
WellFormed(task_args) ==
    /\ 0 <= task_args[2] /\ task_args[2] <= task_args[1]
    /\ task_args[3] >= 0

\* The sum of the five factor values of a result.
FactorSum(r) ==
    r.factors.communication + r.factors.tasks + r.factors.digests
        + r.factors.profitability + r.factors.followups

\* C26: on well-formed aggregates (0 <= completed <= total, overdue >= 0, report
\* and follow-up counts >= 0, cost >= 0) each factor lies in its interval, so the
\* five sum to a value in 0..100 that the clamp leaves alone: the score is the
\* sum of the factors listed in the result.
C26_ClampIdle ==
    /\ (call.fn = "_task_score_from_counts" /\ WellFormed(call.args))
           => Val(call.ret) \in 0..25
    /\ (call.fn = "_digest_score_from_count" /\ call.args[1] >= 0)
           => Val(call.ret) \in 0..15
    /\ (call.fn = "_followup_score_from_overdue" /\ call.args[1] >= 0)
           => Val(call.ret) \in 0..15
    /\ (call.fn = "_profit_score_from_cost" /\ call.args[2] >= 0)
           => Val(call.ret) \in 0..20
    /\ call.fn = "_comm_score_from_days" => Val(call.ret) \in 0..25
    /\ ( call.fn = "_build_result"
         /\ call.args[1] \in 0..25 /\ call.args[2] \in 0..25 /\ call.args[3] \in 0..15
         /\ call.args[4] \in 0..20 /\ call.args[5] \in 0..15 )
           => Val(call.ret).score = FactorSum(Val(call.ret))
    /\ ( call.fn = "score" /\ WellFormed(call.args[2]) /\ call.args[3] >= 0
         /\ call.args[5] >= 0 /\ call.args[6] >= 0 )
           => /\ FactorSum(Val(call.ret)) \in 0..100
              /\ Val(call.ret).score = FactorSum(Val(call.ret))

\* The worst well-formed signals have been scored: every factor 0, score 0.
C26_Witness ==
    /\ call.fn = "score"
    /\ call.args = <<Some(45), <<4, 1, 2>>, 0, Some(1000), 1300, 3>>
    /\ FactorSum(Val(call.ret)) = 0
    /\ Val(call.ret).score = 0

\* The overdue count of a task aggregate fits its counts: at most total minus
\* completed, and 0 when total is 0.
TasksConsistent(task_args) ==
    /\ task_args[3] <= task_args[1] - task_args[2]
    /\ task_args[1] = 0 => task_args[3] = 0

\* C27 (as claimed): in every invocation, also with tasks created, completed or
\* deleted between its fetches, the task aggregate fed to the task factor is
\* consistent: overdue <= total - completed, and overdue = 0 when total = 0.
C27_TaskAggregateConsistent ==
    /\ single.task_score # None => TasksConsistent(Val(single.task_args))
    /\ batch.pc \in {"digests", "cost", "followups"}
           => \A i \in DOMAIN batch.client_ids :
                  TasksConsistent(BatchTaskArgs(batch.task_status_map,
                                                batch.overdue_map, batch.client_ids[i]))

\* C30: for a fixed total >= 1, task_score does not fall as completed grows
\* (overdue fixed) and does not rise as overdue grows (completed fixed); any
\* overdue task gives strictly less than the same counts with none overdue, and
\* every overdue count >= 4 gives the same value.
C30_TaskScoreMonotone ==
    ( call.fn = "_task_score_from_counts" /\ call.args[1] >= 1
      /\ WellFormed(call.args) ) =>
        LET total == call.args[1]
            completed == call.args[2]
            overdue == call.args[3]
            value == Val(call.ret)
        IN  /\ \A c2 \in completed..total :
                   _task_score_from_counts(total, c2, overdue) >= value
            /\ \A o2 \in CountInputs :
                   o2 >= overdue
                   => _task_score_from_counts(total, completed, o2) <= value
            /\ overdue > 0 => value < _task_score_from_counts(total, completed, 0)
            /\ overdue >= 4 => value = _task_score_from_counts(total, completed, 4)

\* task_score(6, 6, 5) = 10: the capped penalty against a full completion.
C30_Witness ==
    /\ call.fn = "_task_score_from_counts"
    /\ call.args = <<6, 6, 5>>
    /\ call.ret = Some(10)

(***************************************************************************)
(* The module guard and the rate limiter.                                  *)
(***************************************************************************)

\* The user's permissions on a module.
HoldsRead(u, m) == \E i \in DOMAIN u.permissions : u.permissions[i].module = m /\ u.permissions[i].can_read

HoldsWrite(u, m) == \E i \in DOMAIN u.permissions : u.permissions[i].module = m /\ u.permissions[i].can_write

\* A check of worker w on key k that the in-memory limiter decides in this
\* step: a check of a limiter without a Redis client, or the fallback.
MemoryDecides(w, k) ==
    \/ check(w, k) /\ ~limiter[w]._redis
    \/ RedisFails(w) /\ limiter[w].key = k

\* A step of worker w that belongs to a check on key k.
CheckStep(w, k) ==
    \/ check(w, k)
    \/ (RedisPrune(w) \/ RedisAdd(w) \/ RedisFails(w)) /\ limiter[w].key = k

\* Every timestamp of the sequence new is one of old, as many times at most.
NothingAdded(old, new) ==
    \A t \in 0..MaxSeconds :
        Cardinality({i \in DOMAIN new : new[i] = t}) <= Cardinality({i \in DOMAIN old : old[i] = t})

\* C21: with the in-memory backend a check on a key is admitted exactly when
\* fewer than max_requests admitted checks of that key are younger than
\* window_seconds, and raises HTTP 429 otherwise.
C21_MemoryAdmission ==
    [][\A w \in Workers, k \in Keys :
          MemoryDecides(w, k) =>
              /\ limiter'[w].last.key = k
              /\ limiter'[w].last.via = "memory"
              /\ limiter'[w].last.status =
                     IF Len(admitted.memory[w][k]) < max_requests THEN "ok" ELSE "429"]_vars

\* A key got max_requests admissions in one window, one of them after an
\* older one had aged out, and the next check on it was rejected.
C21_Witness ==
    \E w \in Workers, k \in Keys :
        /\ limiter[w].last = [key |-> k, status |-> "429", via |-> "memory"]
        /\ Len(limiter[w]._requests[k]) = max_requests
        /\ seconds > window_seconds

\* C22: the steps of a check on one key leave the history of every other key
\* as it was, in memory and in Redis, and a check on a key with fewer than
\* max_requests young admissions is admitted whatever the other keys hold.
C22_KeysIndependent ==
    [][\A w \in Workers, k \in Keys :
          /\ CheckStep(w, k) =>
                \A j \in Keys \ {k} :
                    /\ limiter'[w]._requests[j] = limiter[w]._requests[j]
                    /\ redis'[j] = redis[j]
          /\ (MemoryDecides(w, k) /\ Len(admitted.memory[w][k]) < max_requests) =>
                limiter'[w].last.status = "ok"]_vars

\* A key was admitted at a worker whose other key is exhausted.
C22_Witness ==
    \E w \in Workers, k \in Keys, j \in Keys :
        /\ j # k
        /\ limiter[w].last.key = k
        /\ limiter[w].last.status = "ok"
        /\ limiter[w].last.via = "memory"
        /\ Len(admitted.memory[w][j]) = max_requests
        /\ Len(limiter[w]._requests[j]) = max_requests

\* C23: the guard made with write=True answers HTTP 403 to a member whose
\* permission for the module has can_read but not can_write, and returns a
\* member who holds can_write for the module.
C23_WriteGuard ==
    (access.write = Some(TRUE) /\ Val(access.user).role = "member") =>
        /\ (HoldsRead(Val(access.user), access.module) /\ ~HoldsWrite(Val(access.user), access.module)) =>
               access.raised = "403"
        /\ HoldsWrite(Val(access.user), access.module) =>
               (access.raised = "none" /\ access.ret = access.user)

\* C24: the guard made for read access returns the user it was given exactly
\* when the user is an admin or holds a permission for that module with
\* can_read, and answers HTTP 403 to every other user.
C24_ReadGuard ==
    (access.module # "none" /\ access.write = None) =>
        IF Val(access.user).role = "admin" \/ HoldsRead(Val(access.user), access.module)
        THEN access.raised = "none" /\ access.ret = access.user
        ELSE access.raised = "403" /\ access.ret = None

\* A member who can read another module only was refused.
C24_Witness ==
    /\ access.module = "clients"
    /\ access.write = None
    /\ access.raised = "403"
    /\ Val(access.user).role = "member"
    /\ HoldsRead(Val(access.user), "leads")

\* C25: when a Redis pipeline fails the limiter drops its client for good,
\* the in-memory limiter decides that same check and the caller sees only
\* its answer; a limiter without a client never goes to Redis; and a 429 of
\* the Redis path is raised as it is, with the client kept and the in-memory
\* history untouched.
C25_RedisFallback ==
    [][\A w \in Workers :
          /\ RedisFails(w) =>
                /\ ~limiter'[w]._redis
                /\ limiter'[w].pc = "idle"
                /\ limiter'[w].last.key = limiter[w].key
                /\ limiter'[w].last.via = "memory"
                /\ limiter'[w].last.status =
                       IF Len(admitted.memory[w][limiter[w].key]) < max_requests
                       THEN "ok" ELSE "429"
          /\ ~limiter[w]._redis =>
                /\ ~limiter'[w]._redis
                /\ limiter'[w].pc = "idle"
                /\ limiter'[w].last.via # "redis" \/ limiter'[w].last = limiter[w].last
          /\ (RedisPrune(w) /\ limiter'[w].pc = "idle") =>
                /\ limiter'[w].last.status = "429"
                /\ limiter'[w].last.via = "redis"
                /\ limiter'[w]._redis
                /\ limiter'[w]._requests = limiter[w]._requests]_vars

\* A limiter that fell back to memory has since rejected a check in memory.
C25_Witness ==
    \E w \in Workers :
        /\ ~limiter[w]._redis
        /\ limiter[w].last.via = "memory"
        /\ limiter[w].last.status = "429"
        /\ \E v \in Workers : limiter[v].last.via = "redis" /\ limiter[v].last.status = "429"
        /\ \E k \in Keys : redis[k] # <<>>

\* C28: the admissions of the Redis backend for one key that are younger
\* than window_seconds are never more than max_requests.
C28_RedisLimit ==
    \A k \in Keys : Len(admitted.redis[k]) <= max_requests

\* C29: a rejected check adds no timestamp to the history of its key, in
\* memory and in Redis; the in-memory history of a key holds max_requests
\* timestamps at most; and a check made once the oldest timestamp of its key
\* has aged out of the window is admitted, whatever was rejected before.
C29_RejectedNotRecorded ==
    /\ [][\A w \in Workers, k \in Keys :
             /\ (CheckStep(w, k) /\ limiter'[w].last.status = "429" /\ limiter'[w].pc = "idle") =>
                   /\ NothingAdded(limiter[w]._requests[k], limiter'[w]._requests[k])
                   /\ NothingAdded(redis[k], redis'[k])
             /\ (MemoryDecides(w, k) /\ limiter[w]._requests[k] # <<>>
                   /\ limiter[w]._requests[k][1] <= seconds - window_seconds) =>
                   limiter'[w].last.status = "ok"
             /\ (RedisPrune(w) /\ limiter[w].key = k /\ redis[k] # <<>>
                   /\ redis[k][1] <= limiter[w].now - window_seconds) =>
                   limiter'[w].pc = "add"]_vars
    /\ [](\A w \in Workers, k \in Keys : Len(limiter[w]._requests[k]) <= max_requests)

\* The parts of C29 that concern the in-memory backend.
C29_MemoryOnly ==
    /\ [][\A w \in Workers, k \in Keys :
             /\ (MemoryDecides(w, k) /\ limiter'[w].last.status = "429") =>
                   NothingAdded(limiter[w]._requests[k], limiter'[w]._requests[k])
             /\ (MemoryDecides(w, k) /\ limiter[w]._requests[k] # <<>>
                   /\ limiter[w]._requests[k][1] <= seconds - window_seconds) =>
                   limiter'[w].last.status = "ok"]_vars
    /\ [](\A w \in Workers, k \in Keys : Len(limiter[w]._requests[k]) <= max_requests)

====
